---- MODULE Spec2Model ----
(***************************************************************************)
(* Model of the two notebooks of mspieg/dynamical-systems:                 *)
(*   LorenzEquations.ipynb  - Lorenz right-hand side, fixed points,        *)
(*                            Liapunov fit window, Lorenz-map extraction   *)
(*   Bifurcations.ipynb     - bifurcation_plot branch masking              *)
(* Arithmetic is exact integer arithmetic.  Python indices are 0-based;    *)
(* TLA+ sequences are 1-based, so Python a[i] is written At(a, i).         *)
(***************************************************************************)
EXTENDS Integers, Sequences, FiniteSets, TLC

VARIABLES
  pc,        \* position in the notebook fragment being executed
  ns,        \* the inputs / notebook globals the fragment reads
  rhs,       \* list returned by Lorenz
  ipath, mask, stable, unstable, lines,      \* bifurcation_plot
  dZ, icross, Zextreme, Zn, pts,             \* Lorenz-map cell
  imin, imax, tfit, dfit,                    \* Liapunov fit cell
  plots      \* the (t, array) pairs handed to plot / fit calls, in order

vars == <<pc, ns, rhs, ipath, mask, stable, unstable, lines,
          dZ, icross, Zextreme, Zn, pts, imin, imax, tfit, dfit, plots>>

lorenzVars == <<rhs>>
bifVars == <<ipath, mask, stable, unstable, lines>>
mapVars == <<dZ, icross, Zextreme, Zn, pts>>
fitVars == <<imin, imax, tfit, dfit>>
runVars == <<plots>>

(* ---------------- bounds of the model ---------------- *)
MaxCoord == 2
MaxPar == 3
MaxT == 1
MaxVerts == 4
MaxFx == 1
MaxN == 5
MaxZ == 3
MaxGrid == 4
MaxTime == 4
MaxStop == 3
MaxLiapStop == 14

(* ---------------- Python / numpy primitives ---------------- *)
Min2(a, b) == IF a < b THEN a ELSE b
Max2(a, b) == IF a > b THEN a ELSE b

\* Python a[i] for a 0-based index i >= 0
At(s, i) == s[i + 1]

\* a slice bound of a sequence of length n, as Python normalises it
NormIdx(i, n) == IF i < 0 THEN Max2(i + n, 0) ELSE Min2(i, n)

\* Python s[lo:hi]
PySlice(s, lo, hi) ==
  LET a == NormIdx(lo, Len(s))
      z == NormIdx(hi, Len(s))
  IN  [k \in 1..Max2(z - a, 0) |-> s[a + k]]

\* numpy d[lo:hi] = vals (vals has the length of the slice)
AssignSlice(d, lo, hi, vals) ==
  LET a == NormIdx(lo, Len(d))
      z == NormIdx(hi, Len(d))
  IN  [k \in 1..Len(d) |-> IF a < k /\ k <= z THEN vals[k - a] ELSE d[k]]

\* numpy element-wise a - b, a * b of equal-length arrays
VecSub(a, b) == [k \in 1..Len(a) |-> a[k] - b[k]]
VecMul(a, b) == [k \in 1..Len(a) |-> a[k] * b[k]]

\* numpy.zeros(n)
Zeros(n) == [k \in 1..n |-> 0]

RECURSIVE SumSeq(_)
SumSeq(s) == IF s = <<>> THEN 0 ELSE s[1] + SumSeq(Tail(s))

\* numpy.nonzero(cond)[0] / boolean-mask indexing: the 0-based indices k, in
\* increasing order, at which the boolean array cond is true
RECURSIVE TrueIdxFrom(_, _)
TrueIdxFrom(cond, k) ==
  IF k > Len(cond) THEN <<>>
  ELSE IF cond[k] THEN <<k - 1>> \o TrueIdxFrom(cond, k + 1)
       ELSE TrueIdxFrom(cond, k + 1)
Nonzero(cond) == TrueIdxFrom(cond, 1)

\* fancy indexing a[idx] with idx a sequence of 0-based indices
Take(a, idx) == [k \in 1..Len(idx) |-> At(a, idx[k])]

\* numpy.sqrt on the integers: the floor of the square root (exact on squares)
Sqrt(n) == CHOOSE s \in 0..n : s * s <= n /\ (s + 1) * (s + 1) > n

\* numpy.sign
Sign(v) == IF v < 0 THEN -1 ELSE IF v > 0 THEN 1 ELSE 0

(* ---------------- LorenzEquations.ipynb: Lorenz ---------------- *)
LorenzSwapped(state, t, sigma, r, b) ==
  LET x == state[1]
      y == state[2]
      z == state[3]
  IN  <<sigma * (y - x), x * y - b * z, (r - z) * x - y>>

LorenzNoParen(state, t, sigma, r, b) ==
  LET x == state[1]
      y == state[2]
      z == state[3]
  IN  <<sigma * (y - x), r - z * x - y, x * y - b * z>>

LorenzPlusB(state, t, sigma, r, b) ==
  LET x == state[1]
      y == state[2]
      z == state[3]
  IN  <<sigma * (y - x), (r - z) * x - y, x * y + b * z>>

Lorenz(state, t, sigma, r, b) ==
  LET x == state[1]
      y == state[2]
      z == state[3]
      xd == sigma * (y - x)
      yd == (r - z) * x - y
      zd == x * y - b * z
  IN  <<xd, yd, zd>>

xstarNoRoot(r) == ns.b * (r - 1)

\* xstar = lambda r: np.sqrt(b*(r-1)), b the notebook global
xstar(r) == Sqrt(ns.b * (r - 1))

\* the fixed points C+ and C- of the notebook text, built with xstar
Cplus(r) == <<xstar(r), xstar(r), r - 1>>
Cminus(r) == <<0 - xstar(r), 0 - xstar(r), r - 1>>

Coord == (0 - MaxCoord)..MaxCoord
Par == (-1)..MaxPar

\* values of the variables a fragment has not (yet) assigned
LorenzIdle == rhs = <<>>
BifIdle ==
  /\ ipath = 0 /\ mask = <<>> /\ stable = <<>> /\ unstable = <<>>
  /\ lines = <<>>
MapIdle ==
  /\ dZ = <<>> /\ icross = <<>> /\ Zextreme = <<>> /\ Zn = <<>> /\ pts = <<>>
FitIdle == imin = -1 /\ imax = -1 /\ tfit = <<>> /\ dfit = <<>>
RunIdle == plots = <<>>

InitLorenz ==
  /\ pc = "lorenz"
  /\ \E sg \in Par, rr \in Par, bb \in Par, tt \in 0..MaxT :
       \E st \in Coord \X Coord \X Coord :
         ns = [state |-> st, t |-> tt, sigma |-> sg, r |-> rr, b |-> bb]
  /\ LorenzIdle /\ BifIdle /\ MapIdle /\ FitIdle /\ RunIdle

\* one evaluation of the right-hand side, as odeint makes through Lorenz_p
CallLorenz ==
  /\ pc = "lorenz"
  /\ rhs' = Lorenz(ns.state, ns.t, ns.sigma, ns.r, ns.b)
  /\ pc' = "returned"
  /\ UNCHANGED runVars
  /\ UNCHANGED <<ns, bifVars, mapVars, fitVars>>

\* the right-hand side evaluated at the fixed points C+ / C- that the
\* notebook builds from xstar(r); np.sqrt is real only for b*(r-1) >= 0
CallLorenzAtC ==
  /\ pc = "lorenz"
  /\ ns.b * (ns.r - 1) >= 0
  /\ \E c \in {Cplus(ns.r), Cminus(ns.r)} :
       /\ ns' = [ns EXCEPT !.state = c]
       /\ rhs' = Lorenz(c, ns.t, ns.sigma, ns.r, ns.b)
  /\ pc' = "returnedC"
  /\ UNCHANGED runVars
  /\ UNCHANGED <<bifVars, mapVars, fitVars>>

NextLorenz == CallLorenz \/ CallLorenzAtC

SpecLorenz == InitLorenz /\ [][NextLorenz]_vars

IsSquare(n) == n >= 0 /\ Sqrt(n) * Sqrt(n) = n

\* C1: Lorenz(state, t, sigma, r, b) returns exactly
\* [sigma*(y - x), r*x - y - x*z, x*y - b*z], in the order dX, dY, dZ, for
\* every state, parameter triple and time t (t does not enter the result).
C1_LorenzRHS ==
  pc = "returned" =>
    LET x == ns.state[1]
        y == ns.state[2]
        z == ns.state[3]
    IN  /\ Len(rhs) = 3
        /\ rhs[1] = ns.sigma * (y - x)
        /\ rhs[2] = ns.r * x - y - x * z
        /\ rhs[3] = x * y - ns.b * z

C1_Witness ==
  /\ pc = "returned"
  /\ ns.state = <<1, 2, -1>> /\ ns.sigma = 2 /\ ns.r = 3 /\ ns.b = 2
  /\ ns.t = 1
  /\ rhs = <<2, 2, 4>>

\* C5: the origin is a fixed point for all parameter values:
\* Lorenz([0,0,0], t, sigma, r, b) = [0,0,0].
C5_OriginFixed ==
  (pc = "returned" /\ ns.state = <<0, 0, 0>>) => rhs = <<0, 0, 0>>

C5_Witness ==
  /\ pc = "returned" /\ ns.state = <<0, 0, 0>>
  /\ ns.sigma = 2 /\ ns.r = 3 /\ ns.b = 1 /\ rhs = <<0, 0, 0>>

\* C6: for every sigma, b and r >= 1 with b*(r-1) a perfect square, both
\* C+ = (s, s, r-1) and C- = (-s, -s, r-1), s = xstar(r), are fixed points:
\* Lorenz returns [0,0,0] at each.
C6_CpmFixed ==
  (pc = "returnedC" /\ ns.r >= 1 /\ IsSquare(ns.b * (ns.r - 1))) =>
    /\ ns.state[1] * ns.state[1] = ns.b * (ns.r - 1)
    /\ ns.state[2] = ns.state[1]
    /\ ns.state[3] = ns.r - 1
    /\ rhs = <<0, 0, 0>>

C6_Witness ==
  /\ pc = "returnedC" /\ ns.r = 3 /\ ns.b = 2
  /\ ns.state = <<-2, -2, 2>> /\ rhs = <<0, 0, 0>>

(* ---------------- Bifurcations.ipynb: bifurcation_plot ---------------- *)
\* ns.paths[p][k] is f_x(vr, vx) at vertex k of path p of the zero contour;
\* a vertex is named by its 0-based position on its path.

\* mask = numpy.sign(f_x(vr,vx))
SignMask(fxv) == [k \in 1..Len(fxv) |-> Sign(fxv[k])]

StableMaskLe(m) == [k \in 1..Len(m) |-> m[k] <= 0]

\* stable = mask < 0.
StableMask(m) == [k \in 1..Len(m) |-> m[k] < 0]

\* unstable = mask > 0.
UnstableMask(m) == [k \in 1..Len(m) |-> m[k] > 0]

\* plt.plot(vr[sel], vx[sel], style): one polyline through the selected
\* vertices, in path order, each joined to the next selected one
PlotLine(p, sel, style) ==
  [path |-> p, style |-> style, verts |-> Nonzero(sel)]

FxVal == (0 - MaxFx)..MaxFx

RECURSIVE SeqsUpTo(_, _)
SeqsUpTo(S, n) ==
  IF n = 0 THEN {<<>>}
  ELSE LET shorter == SeqsUpTo(S, n - 1)
       IN  shorter \cup {Append(q, v) : q \in shorter, v \in S}

\* the paths of a contour: the vertex sequence f cut into consecutive
\* non-empty paths after the positions in cuts
NthStart(S, j) == CHOOSE a \in S : Cardinality({x \in S : x < a}) = j - 1

SplitPaths(f, cuts) ==
  LET S == {1} \cup {c + 1 : c \in cuts}
      n == Cardinality(S)
  IN  [j \in 1..n |->
        LET a == NthStart(S, j)
            z == IF j = n THEN Len(f) ELSE NthStart(S, j + 1) - 1
        IN  [k \in 1..(z - a + 1) |-> f[a + k - 1]]]

InitBif ==
  /\ pc = "mask"
  /\ \E f \in SeqsUpTo(FxVal, MaxVerts) \ {<<>>} :
       \E cuts \in SUBSET (1..(Len(f) - 1)) :
         ns = [paths |-> SplitPaths(f, cuts)]
  /\ LorenzIdle /\ BifIdle /\ MapIdle /\ FitIdle /\ RunIdle

\* loop body, first half: mask the vertices of the current path
MaskPath ==
  /\ pc = "mask"
  /\ mask' = SignMask(At(ns.paths, ipath))
  /\ stable' = StableMask(mask')
  /\ unstable' = UnstableMask(mask')
  /\ pc' = "plot"
  /\ UNCHANGED runVars
  /\ UNCHANGED <<ns, ipath, lines, lorenzVars, mapVars, fitVars>>

\* loop body, second half: the two plt.plot calls, then the next path
PlotBranches ==
  /\ pc = "plot"
  /\ lines' = lines \o <<PlotLine(ipath, stable, "b"),
                         PlotLine(ipath, unstable, "b--")>>
  /\ ipath' = ipath + 1
  /\ pc' = IF ipath + 1 < Len(ns.paths) THEN "mask" ELSE "done"
  /\ UNCHANGED runVars
  /\ UNCHANGED <<ns, mask, stable, unstable, lorenzVars, mapVars, fitVars>>

NextBif == MaskPath \/ PlotBranches

SpecBif == InitBif /\ [][NextBif]_vars

\* vertex k of path p lies on a drawn line of the given style
OnBranch(p, k, style) ==
  \E i \in 1..Len(lines) :
    /\ lines[i].path = p /\ lines[i].style = style
    /\ \E j \in 1..Len(lines[i].verts) : lines[i].verts[j] = k

\* C2: every vertex of every path is drawn on the stable (solid) branch iff
\* f_x < 0 there and on the unstable (dashed) branch iff f_x > 0; no vertex
\* is on both, and a vertex with f_x = 0 is on neither.
C2_BranchBySign ==
  \A p \in 0..(ipath - 1) :
    \A k \in 0..(Len(At(ns.paths, p)) - 1) :
      LET fx == At(At(ns.paths, p), k)
      IN  /\ OnBranch(p, k, "b") <=> fx < 0
          /\ OnBranch(p, k, "b--") <=> fx > 0
          /\ ~(OnBranch(p, k, "b") /\ OnBranch(p, k, "b--"))
          /\ fx = 0 => ~OnBranch(p, k, "b") /\ ~OnBranch(p, k, "b--")

C2_Witness ==
  /\ pc = "done" /\ ns.paths = <<<<-1, 0, 1>>>>
  /\ lines = <<[path |-> 0, style |-> "b", verts |-> <<0>>],
               [path |-> 0, style |-> "b--", verts |-> <<2>>]>>

\* C7: each segment drawn for a branch joins two vertices adjacent on the
\* contour path: no segment crosses a run of vertices of the other stability.
C7_SegmentsAdjacent ==
  \A i \in 1..Len(lines) :
    \A j \in 1..(Len(lines[i].verts) - 1) :
      lines[i].verts[j + 1] = lines[i].verts[j] + 1

(* ---------------- LorenzEquations.ipynb: Lorenz-map cell ---------------- *)
\* ns.Z is the time series Z = state0[:,2].

\* dZ = np.zeros(Z.shape); dZ[1:-2] = Z[2:-1] - Z[0:-3]
CenteredDerivative(Z) ==
  AssignSlice(Zeros(Len(Z)), 1, -2,
              VecSub(PySlice(Z, 2, -1), PySlice(Z, 0, -3)))

\* icross = np.nonzero(dZ[:-2]*dZ[1:-1] <= 0)
Crossings(d) ==
  LET prod == VecMul(PySlice(d, 0, -2), PySlice(d, 1, -1))
  IN  Nonzero([k \in 1..Len(prod) |-> prod[k] <= 0])

\* v > np.mean(Z), compared exactly: v > sum(Z)/N  <=>  v*N > sum(Z)
AboveMean(v, Z) == v * Len(Z) > SumSeq(Z)

AtOrAboveMean(v, Z) == v * Len(Z) >= SumSeq(Z)

MaximaGe(Ze, Z) ==
  Take(Ze, Nonzero([k \in 1..Len(Ze) |-> AtOrAboveMean(Ze[k], Z)]))

\* Zn = Zextreme[Zextreme > meanZ]
Maxima(Ze, Z) ==
  Take(Ze, Nonzero([k \in 1..Len(Ze) |-> AboveMean(Ze[k], Z)]))

\* plt.plot(Zn[:-2], Zn[1:-1], 'bo'): the points (x[k], y[k])
MapPoints(zn) ==
  LET xs == PySlice(zn, 0, -2)
      ys == PySlice(zn, 1, -1)
  IN  [k \in 1..Len(xs) |-> <<xs[k], ys[k]>>]

ZVal == 0..MaxZ

ZSet == {z \in SeqsUpTo(ZVal, MaxN) : Len(z) >= 3}

InitMap ==
  /\ pc = "derivative"
  /\ \E z \in ZSet : ns = [Z |-> z]
  /\ LorenzIdle /\ BifIdle /\ MapIdle /\ FitIdle /\ RunIdle

EstimateDerivative ==
  /\ pc = "derivative"
  /\ dZ' = CenteredDerivative(ns.Z)
  /\ pc' = "crossings"
  /\ UNCHANGED runVars
  /\ UNCHANGED <<ns, icross, Zextreme, Zn, pts, lorenzVars, bifVars, fitVars>>

FindCrossings ==
  /\ pc = "crossings"
  /\ icross' = Crossings(dZ)
  /\ Zextreme' = Take(ns.Z, icross')
  /\ pc' = "maxima"
  /\ UNCHANGED runVars
  /\ UNCHANGED <<ns, dZ, Zn, pts, lorenzVars, bifVars, fitVars>>

PickMaxima ==
  /\ pc = "maxima"
  /\ Zn' = Maxima(Zextreme, ns.Z)
  /\ pc' = "plotmap"
  /\ UNCHANGED runVars
  /\ UNCHANGED <<ns, dZ, icross, Zextreme, pts, lorenzVars, bifVars, fitVars>>

PlotLorenzMap ==
  /\ pc = "plotmap"
  /\ pts' = MapPoints(Zn)
  /\ pc' = "plotted"
  /\ UNCHANGED runVars
  /\ UNCHANGED <<ns, dZ, icross, Zextreme, Zn, lorenzVars, bifVars, fitVars>>

NextMap ==
  EstimateDerivative \/ FindCrossings \/ PickMaxima \/ PlotLorenzMap

SpecMap == InitMap /\ [][NextMap]_vars

\* the indices the cell has selected, and those whose value is kept in Zn
Selected == {icross[k] : k \in 1..Len(icross)}
Kept == {i \in Selected : AboveMean(At(ns.Z, i), ns.Z)}
AfterCrossings == pc \in {"maxima", "plotmap", "plotted"}
AfterMaxima == pc \in {"plotmap", "plotted"}

\* the centered difference of Z at sample i exists for interior i only
Interior(i) == 1 <= i /\ i <= Len(ns.Z) - 2
Centered(i) == At(ns.Z, i + 1) - At(ns.Z, i - 1)

StrictlyMonotonic(Z) ==
  \/ \A k \in 1..(Len(Z) - 1) : Z[k] < Z[k + 1]
  \/ \A k \in 1..(Len(Z) - 1) : Z[k] > Z[k + 1]

\* C3: every index i selected into icross is an interval with a zero
\* crossing of the derivative of Z: the centered differences of Z at samples
\* i and i+1 have a product <= 0; a strictly monotonic Z gives an empty
\* Zextreme.
C3_CrossingsAreZeroCrossings ==
  AfterCrossings =>
    /\ \A i \in Selected :
         /\ Interior(i) /\ Interior(i + 1)
         /\ Centered(i) * Centered(i + 1) <= 0
    /\ StrictlyMonotonic(ns.Z) => Zextreme = <<>>

\* C4: the plotted points are exactly the pairs (Zn[k], Zn[k+1]) for every
\* k with 0 <= k <= M-2, M = len(Zn), each once and in order.
C4_AllConsecutivePairs ==
  pc = "plotted" =>
    pts = [k \in 1..Max2(Len(Zn) - 1, 0) |-> <<Zn[k], Zn[k + 1]>>]

C10_CenteredDerivative ==
  pc # "derivative" =>
    /\ Len(dZ) = Len(ns.Z)
    /\ \A i \in 1..(Len(ns.Z) - 2) : At(dZ, i) = Centered(i)
    /\ At(dZ, 0) = 0 /\ At(dZ, Len(ns.Z) - 1) = 0

\* C11: each peak of Z is extracted once: for every strict local maximum of
\* Z at an interior index m (Z[m-1] < Z[m] > Z[m+1]) with Z[m] above mean(Z),
\* exactly one of the indices m-1, m is selected, also when the centered
\* difference at the peak is exactly zero (Z[m+1] = Z[m-1]).
C11_EachPeakOnce ==
  AfterMaxima =>
    \A m \in 1..(Len(ns.Z) - 2) :
      (/\ At(ns.Z, m - 1) < At(ns.Z, m)
       /\ At(ns.Z, m) > At(ns.Z, m + 1)
       /\ AboveMean(At(ns.Z, m), ns.Z)) =>
        Cardinality({m - 1, m} \cap Selected) = 1

(* ---------------- LorenzEquations.ipynb: Liapunov fit cell ---------------- *)
\* ns.t is the time grid, ns.delta the distance of the two trajectories at
\* each grid time, ns.tmin <= ns.tmax the window.

\* np.argwhere(t < tmin), np.argwhere(t > tmax)
Below(t, tmin) == Nonzero([k \in 1..Len(t) |-> t[k] < tmin])
Above(t, tmax) == Nonzero([k \in 1..Len(t) |-> t[k] > tmax])

\* a[-1], a[0]
Last(a) == a[Len(a)]
First(a) == a[1]

StrictlyIncreasing(t) == \A k \in 1..(Len(t) - 1) : t[k] < t[k + 1]

TimeVal == 0..MaxTime

GridSet ==
  {g \in SeqsUpTo(TimeVal, MaxGrid) : Len(g) >= 1 /\ StrictlyIncreasing(g)}

InitFit ==
  /\ pc = "window"
  /\ \E g \in GridSet, lo \in TimeVal :
       \E hi \in lo..MaxTime,
          d \in {q \in SeqsUpTo(1..2, MaxGrid) : Len(q) = Len(g)} :
         ns = [t |-> g, delta |-> d, tmin |-> lo, tmax |-> hi]
  /\ LorenzIdle /\ BifIdle /\ MapIdle /\ FitIdle /\ RunIdle

\* imin = int(np.argwhere(t<tmin)[-1]); imax = int(np.argwhere(t>tmax)[0])
FitWindow ==
  /\ pc = "window"
  /\ Below(ns.t, ns.tmin) # <<>>
  /\ Above(ns.t, ns.tmax) # <<>>
  /\ imin' = Last(Below(ns.t, ns.tmin))
  /\ imax' = First(Above(ns.t, ns.tmax))
  /\ pc' = "slice"
  /\ UNCHANGED runVars
  /\ UNCHANGED <<ns, tfit, dfit, lorenzVars, bifVars, mapVars>>

\* indexing an empty argwhere result raises IndexError: the cell stops
FitWindowError ==
  /\ pc = "window"
  /\ Below(ns.t, ns.tmin) = <<>> \/ Above(ns.t, ns.tmax) = <<>>
  /\ pc' = "IndexError"
  /\ UNCHANGED runVars
  /\ UNCHANGED <<ns, fitVars, lorenzVars, bifVars, mapVars>>

\* tfit = t[imin:imax]; the fit uses delta[imin:imax]
FitSlice ==
  /\ pc = "slice"
  /\ tfit' = PySlice(ns.t, imin, imax)
  /\ dfit' = PySlice(ns.delta, imin, imax)
  /\ pc' = "fitted"
  /\ UNCHANGED runVars
  /\ UNCHANGED <<ns, imin, imax, lorenzVars, bifVars, mapVars>>

NextFit == FitWindow \/ FitWindowError \/ FitSlice

SpecFit == InitFit /\ [][NextFit]_vars

\* C9: on a strictly increasing grid with a sample below tmin and a sample
\* above tmax, every time in tfit = t[imin:imax] satisfies
\* tmin <= t <= tmax, and delta[imin:imax] holds the distances at exactly
\* those times.
C9_FitWithinWindow ==
  pc = "fitted" =>
    /\ \A k \in 1..Len(tfit) : ns.tmin <= tfit[k] /\ tfit[k] <= ns.tmax
    /\ Len(dfit) = Len(tfit)
    /\ \A k \in 1..Len(tfit) :
         \E i \in 0..(Len(ns.t) - 1) :
           At(ns.t, i) = tfit[k] /\ At(ns.delta, i) = dfit[k]

(* ------- LorenzEquations.ipynb: the cells run once, top to bottom ------- *)
\* ns holds the notebook globals t, state, state0, state1, delta, Y, Z.
\* Time is scaled so that every grid has step 1; ns.T1..ns.T4 are the end
\* times of the four np.arange calls.  A trajectory array is modelled by its
\* rows, one per solved time; the values in the rows are not modelled.

\* tmin = 1. and tmax = 12. of the fit cell
FitTmin == 1
FitTmax == 12

\* np.arange(start, stop, step) with the step scaled to 1
Arange(start, stop) == [k \in 1..Max2(stop - start, 0) |-> start + k - 1]

\* SolveLorenz: odeint returns one row per entry of t
SolveLorenz(state0, t) == Zeros(Len(t))

\* one plot / fit call that pairs the arrays x and y
Paired(call, x, y) == [call |-> call, x |-> Len(x), y |-> Len(y)]

\* PlotLorenzXvT: ax.plot(t,X), ax.plot(t,Y), ax.plot(t,Z), columns of state
PlotLorenzXvT(state, t) ==
  <<Paired("X(t)", t, state), Paired("Y(t)", t, state),
    Paired("Z(t)", t, state)>>

InitRun ==
  /\ pc = "subcritical"
  /\ \E e1 \in 1..MaxStop, e2 \in 1..MaxStop, e3 \in 1..MaxStop,
        e4 \in 1..MaxLiapStop :
       ns = [T1 |-> e1, T2 |-> e2, T3 |-> e3, T4 |-> e4,
             t |-> <<>>, state |-> <<>>, state0 |-> <<>>, state1 |-> <<>>,
             delta |-> <<>>, Y |-> <<>>, Z |-> <<>>]
  /\ LorenzIdle /\ BifIdle /\ MapIdle /\ FitIdle /\ RunIdle

\* cell "Subcritical behavior": t = np.arange(0.0, 30.0, 0.01), solve, plot
CellSubcritical ==
  /\ pc = "subcritical"
  /\ LET t == Arange(0, ns.T1)
         state == SolveLorenz(<<2, 3, 4>>, t)
     IN  /\ ns' = [ns EXCEPT !.t = t, !.state = state]
         /\ plots' = plots \o PlotLorenzXvT(state, t)
  /\ pc' = "damped"
  /\ UNCHANGED <<lorenzVars, bifVars, mapVars, fitVars>>

\* cell "Damped Oscillation": two solves on the current t, each plotted
CellDamped ==
  /\ pc = "damped"
  /\ LET first == SolveLorenz(<<2, 3, 4>>, ns.t)
         second == SolveLorenz(<<-2, -3, 4>>, ns.t)
     IN  /\ ns' = [ns EXCEPT !.state = second]
         /\ plots' = plots \o PlotLorenzXvT(first, ns.t)
                           \o PlotLorenzXvT(second, ns.t)
  /\ pc' = "chaos"
  /\ UNCHANGED <<lorenzVars, bifVars, mapVars, fitVars>>

\* cell "Chaos and the strange attractor": solve on the current t, plot
CellChaos ==
  /\ pc = "chaos"
  /\ LET state == SolveLorenz(<<2, 3, 4>>, ns.t)
     IN  /\ ns' = [ns EXCEPT !.state = state]
         /\ plots' = plots \o PlotLorenzXvT(state, ns.t)
  /\ pc' = "limitcycle"
  /\ UNCHANGED <<lorenzVars, bifVars, mapVars, fitVars>>

\* cell "Limit Cycle": t = np.arange(0,8.,.0001), solve, plot
CellLimitCycle ==
  /\ pc = "limitcycle"
  /\ LET t == Arange(0, ns.T2)
         state == SolveLorenz(<<2, 3, 4>>, t)
     IN  /\ ns' = [ns EXCEPT !.t = t, !.state = state]
         /\ plots' = plots \o PlotLorenzXvT(state, t)
  /\ pc' = "eigenvalues"
  /\ UNCHANGED <<lorenzVars, bifVars, mapVars, fitVars>>

\* cell "Stability of Fixed Points": eigenvalue plot, neither reads nor
\* assigns t or a trajectory
CellEigenvalues ==
  /\ pc = "eigenvalues"
  /\ pc' = "liapsetup"
  /\ UNCHANGED <<ns, plots, lorenzVars, bifVars, mapVars, fitVars>>

CellLiapunovSetupStale ==
  /\ pc = "liapsetup"
  /\ LET t1 == Arange(0, ns.T3)
         state == SolveLorenz(<<1, 0, 0>>, t1)
         t2 == Arange(0, ns.T4)
         state0 == SolveLorenz(At(state, Len(state) - 1), t1)
         state1 == SolveLorenz(At(state, Len(state) - 1), t1)
     IN  /\ ns' = [ns EXCEPT !.t = t2, !.state = state,
                             !.state0 = state0, !.state1 = state1]
         /\ plots' = plots \o <<Paired("X0(t)", t2, state0),
                                 Paired("X1(t)", t2, state1)>>
  /\ pc' = "liapfit"
  /\ UNCHANGED <<lorenzVars, bifVars, mapVars, fitVars>>

\* cell "Liapunov Exponents" setup: t = np.arange(0,20,.01), solve, take the
\* final state, t = np.arange(0.,50.,.0001), solve state0 and state1 on the
\* new t, plot both against t
CellLiapunovSetup ==
  /\ pc = "liapsetup"
  /\ LET t1 == Arange(0, ns.T3)
         state == SolveLorenz(<<1, 0, 0>>, t1)
         t2 == Arange(0, ns.T4)
         state0 == SolveLorenz(At(state, Len(state) - 1), t2)
         state1 == SolveLorenz(At(state, Len(state) - 1), t2)
     IN  /\ ns' = [ns EXCEPT !.t = t2, !.state = state,
                             !.state0 = state0, !.state1 = state1]
         /\ plots' = plots \o <<Paired("X0(t)", t2, state0),
                                 Paired("X1(t)", t2, state1)>>
  /\ pc' = "liapfit"
  /\ UNCHANGED <<lorenzVars, bifVars, mapVars, fitVars>>

\* cell "Estimating the Liapunov exponent": delta, semilogy(t,delta), the
\* window indices, tfit and the fit of log(delta[imin:imax]) against tfit
CellLiapunovFit ==
  /\ pc = "liapfit"
  /\ Below(ns.t, FitTmin) # <<>>
  /\ Above(ns.t, FitTmax) # <<>>
  /\ LET delta == VecSub(ns.state1, ns.state0)
     IN  /\ ns' = [ns EXCEPT !.delta = delta]
         /\ imin' = Last(Below(ns.t, FitTmin))
         /\ imax' = First(Above(ns.t, FitTmax))
         /\ tfit' = PySlice(ns.t, imin', imax')
         /\ dfit' = PySlice(delta, imin', imax')
         /\ plots' = plots \o <<Paired("delta(t)", ns.t, delta),
                                 Paired("polyfit", tfit', dfit')>>
  /\ pc' = "yz"
  /\ UNCHANGED <<lorenzVars, bifVars, mapVars>>

\* the same cell when t has no sample below tmin or none above tmax: the
\* first plot is made, then indexing the empty argwhere raises IndexError
CellLiapunovFitError ==
  /\ pc = "liapfit"
  /\ Below(ns.t, FitTmin) = <<>> \/ Above(ns.t, FitTmax) = <<>>
  /\ LET delta == VecSub(ns.state1, ns.state0)
     IN  /\ ns' = [ns EXCEPT !.delta = delta]
         /\ plots' = plots \o <<Paired("delta(t)", ns.t, delta)>>
  /\ pc' = "IndexError"
  /\ UNCHANGED <<lorenzVars, bifVars, mapVars, fitVars>>

\* cell "Calculating the Lorenz Map": Y, Z = columns of state0, plt.plot(t,Z)
CellYZ ==
  /\ pc = "yz"
  /\ ns' = [ns EXCEPT !.Y = ns.state0, !.Z = ns.state0]
  /\ plots' = plots \o <<Paired("Z(t)", ns.t, ns.state0)>>
  /\ pc' = "lorenzmap"
  /\ UNCHANGED <<lorenzVars, bifVars, mapVars, fitVars>>

\* cell "The Lorenz Map": dZ, plt.plot(t,dZ,t,np.zeros(t.shape)), then the
\* extraction and the map plot
CellLorenzMap ==
  /\ pc = "lorenzmap"
  /\ dZ' = CenteredDerivative(ns.Z)
  /\ plots' = plots \o <<Paired("dZ(t)", ns.t, dZ'),
                          Paired("zero line", ns.t, Zeros(Len(ns.t)))>>
  /\ icross' = Crossings(dZ')
  /\ Zextreme' = Take(ns.Z, icross')
  /\ Zn' = Maxima(Zextreme', ns.Z)
  /\ pts' = MapPoints(Zn')
  /\ pc' = "done"
  /\ UNCHANGED <<ns, lorenzVars, bifVars, fitVars>>

NextRun ==
  \/ CellSubcritical \/ CellDamped \/ CellChaos \/ CellLimitCycle
  \/ CellEigenvalues \/ CellLiapunovSetup \/ CellLiapunovFit
  \/ CellLiapunovFitError \/ CellYZ \/ CellLorenzMap

SpecRun == InitRun /\ [][NextRun]_vars

\* C12: when the cells are executed once in top-to-bottom order, at every
\* plotting or fitting call that pairs t (or a slice of t) with a
\* trajectory-derived array, the two arrays have the same length.
C12_ShapesConsistent ==
  \A k \in 1..Len(plots) : plots[k].x = plots[k].y

\* a complete run in which every reassignment of t changed its length
C12_Witness ==
  /\ pc = "done" /\ Len(plots) = 22
  /\ ns.T1 = 3 /\ ns.T2 = 2 /\ ns.T3 = 1 /\ ns.T4 = 14
  /\ Len(ns.t) = 14 /\ Len(tfit) = 13
  /\ plots[22] = [call |-> "zero line", x |-> 14, y |-> 14]

====
